---- MODULE Spec2Model ----
(***************************************************************************)
(* Token lifecycle of the Xero API integration: the file-backed token      *)
(* store (src/src/token_storage.py), the OAuth2 exchange client            *)
(* (src/src/xero_oauth.py) and the request handlers that drive them        *)
(* (src/src/main.py).                                                      *)
(*                                                                         *)
(* Handlers are coroutines on one event loop: a handler runs without       *)
(* interruption up to an `await` and from it to the next one, so every     *)
(* handler is one action per stretch between awaits.  The provider (token  *)
(* endpoint, connections lookup, accounting API) is an input: each call    *)
(* either fails or answers.  The provider's token payloads always carry    *)
(* access_token and refresh_token (the scope asks for offline_access and   *)
(* the handlers index ['refresh_token'] unguarded); expires_in is optional *)
(* because save_token reads it with a default.                             *)
(***************************************************************************)
EXTENDS Integers, Sequences, FiniteSets, Bags, TLC

VARIABLES
    file,     \* tokens.json on disk (token_storage.py, storage_path)
    now,      \* datetime.now(), in seconds
    ticks,    \* how many times the clock has advanced
    issued,   \* how many token payloads the token endpoint has issued;
              \* payload n carries access_token n and refresh_token n
    reqs,     \* bag of the handlers suspended at an await of main.py, each
              \* with the locals it resumes with (in SpecResolve: the
              \* get_connections call, at the line it has reached)
    last,     \* the outcome of the call that finished last (observation)
    savers    \* SpecSave, SpecCrash, SpecResolve: the line of save_token
              \* each thread is at, and its local `tokens`

vars == <<file, now, ticks, issued, reqs, last, savers>>

----------------------------------------------------------------------------
(* Bounds *)

MaxTicks == 2
MaxIssued == 3
MaxRequests == 2
MaxOrgs == 1

(* Inputs *)

Tenants == {"tenant_a", "tenant_b"}
ShortExpiresIn == 1
ConnectionLists ==
    {<<>>, <<"tenant_a">>, <<"tenant_b">>,
     <<"tenant_a", "tenant_b">>, <<"tenant_b", "tenant_a">>}

----------------------------------------------------------------------------
(* Python values *)

EmptyDict == [k \in {} |-> 0]

\* None and {} are both falsy; tokens.get(k) of a missing key is modelled by
\* the empty dict, which `not token_data` treats alike.
None == EmptyDict

Falsy(d) == DOMAIN d = {}

DictGet(d, k, default) == IF k \in DOMAIN d THEN d[k] ELSE default

DictSet(d, k, v) == [x \in DOMAIN d \cup {k} |-> IF x = k THEN v ELSE d[x]]

DictDel(d, k) == [x \in DOMAIN d \ {k} |-> d[x]]

\* datetime.isoformat(): the instant rendered as its hour, minute and second
\* fields; datetime.fromisoformat() reads the fields back.
isoformat(t) == <<t \div 3600, (t % 3600) \div 60, t % 60>>

fromisoformat(s) == s[1] * 3600 + s[2] * 60 + s[3]

HTTPException(status_code, detail) ==
    [status_code |-> status_code, detail |-> detail]

Returned == [status_code |-> 200, detail |-> ""]

----------------------------------------------------------------------------
(* token_storage.py *)

TempTenant == "temp_tenant"

Keys == Tenants \cup {TempTenant}

DefaultExpiresIn == 1800

NoFile == [state |-> "missing", tokens |-> EmptyDict]

\* a zero-length file: what open(path, 'w') leaves before anything is written
EmptyFile == [state |-> "empty", tokens |-> EmptyDict]

\* a file whose content json.load rejects
CorruptFile == [state |-> "corrupt", tokens |-> EmptyDict]

JsonFile(tokens) == [state |-> "json", tokens |-> tokens]

_load_tokens(f) == IF f.state = "json" THEN f.tokens ELSE EmptyDict

\* the provider's expires_in ignored: every record gets the default lifetime
add_expiry_default_only(token_data, t) ==
    DictSet(token_data, "expires_at", isoformat(t + DefaultExpiresIn))

\* the payload stored as it came, with its relative expires_in only
add_expiry_none(token_data, t) == token_data

add_expiry(token_data, t) ==
    DictSet(token_data, "expires_at",
            isoformat(t + DictGet(token_data, "expires_in", DefaultExpiresIn)))

\* json.load's error let through: on a file that does not parse the call
\* raises before it writes
save_token_raises_on_corrupt(f, tenant_id, token_data, t) ==
    IF f.state \in {"corrupt", "empty"}
    THEN f
    ELSE JsonFile(DictSet(f.tokens, tenant_id, add_expiry(token_data, t)))

save_token(f, tenant_id, token_data, t) ==
    JsonFile(DictSet(_load_tokens(f), tenant_id, add_expiry(token_data, t)))

\* a lookup that falls back to the temporary record for an unknown tenant
get_token_temp_fallback(f, tenant_id) ==
    DictGet(_load_tokens(f), tenant_id,
            DictGet(_load_tokens(f), TempTenant, None))

get_token(f, tenant_id) == DictGet(_load_tokens(f), tenant_id, None)

\* the comparison written with > : a token expiring exactly now passes
is_token_expired_strict(f, tenant_id, t) ==
    LET token_data == get_token(f, tenant_id)
    IN  IF Falsy(token_data) \/ "expires_at" \notin DOMAIN token_data
        THEN TRUE
        ELSE t > fromisoformat(token_data["expires_at"])

\* a second of margin: the last second of the lifetime counts as expired
is_token_expired_early(f, tenant_id, t) ==
    LET token_data == get_token(f, tenant_id)
    IN  IF Falsy(token_data) \/ "expires_at" \notin DOMAIN token_data
        THEN TRUE
        ELSE t + 1 >= fromisoformat(token_data["expires_at"])

is_token_expired(f, tenant_id, t) ==
    LET token_data == get_token(f, tenant_id)
    IN  IF Falsy(token_data) \/ "expires_at" \notin DOMAIN token_data
        THEN TRUE
        ELSE t >= fromisoformat(token_data["expires_at"])

\* only the tenants' records dropped, the temporary one kept
clear_tokens_keeps_temp(f) ==
    IF TempTenant \in DOMAIN _load_tokens(f)
    THEN JsonFile([k \in {TempTenant} |-> f.tokens[k]])
    ELSE IF f.state # "missing" THEN NoFile ELSE f

clear_tokens(f) == IF f.state # "missing" THEN NoFile ELSE f

----------------------------------------------------------------------------
(* xero_oauth.py: what the token endpoint answers on success *)

TokenPayload(n, expires_in) ==
    IF expires_in = 0
    THEN [access_token |-> n, refresh_token |-> n]
    ELSE [access_token |-> n, refresh_token |-> n, expires_in |-> expires_in]

ExpiresInChoices == {0, ShortExpiresIn}   \* 0: the payload omits expires_in

----------------------------------------------------------------------------
(* main.py *)

\* the names bound at module level of main.py
MainGlobals ==
    {"FastAPI", "Depends", "HTTPException", "Request", "Query",
     "RedirectResponse", "JSONResponse", "asynccontextmanager",
     "Optional", "List", "Dict", "Any", "logging", "settings",
     "verify_api_key", "xero_oauth_manager", "token_storage",
     "AccountingApi", "IdentityApi", "logger", "app"}

NotAuthorized == HTTPException(401, "Tenant not authorized")
RefreshFailed == HTTPException(401, "Failed to refresh token")
NoCode == HTTPException(400, "Authorization code not provided")
ExchangeError == HTTPException(400, "exchange failed")
NoConnections ==
    HTTPException(401, "No Xero connections found. Please authorize first.")
NoAuthorization ==
    HTTPException(401, "No authorization found. Please authorize first.")
LookupFailed == HTTPException(500, "connections lookup failed")
NameError == HTTPException(500, "name 'json' is not defined")

\* a handler can be accepted while fewer than MaxRequests are suspended
CanAccept == BagCardinality(reqs) < MaxRequests

Suspend(req) == reqs' = reqs (+) SetToBag({req})

Resume(req) == reqs' = reqs (-) SetToBag({req})

Suspended(pc) == {req \in BagToSet(reqs) : req.pc = pc}

\* how many handlers are suspended at pc
InFlight(pc) == BagCardinality([req \in Suspended(pc) |-> reqs[req]])

\* What a finished call did (observation, not program state): its response,
\* whether a code came with it, what the provider answered, the provider
\* calls it made, the access token it handed to create_api_client, the
\* instant and tokens.json when it was called, the instant it saved at, the
\* tenants get_organizations built a client for (with the access token
\* used), skipped and called refresh for, the keys whose record it changed,
\* and tokens.json before and after its last stretch.
NoOutcome ==
    [op |-> "none", tenant_id |-> "", error |-> Returned, access_token |-> 0,
     code |-> FALSE, provider |-> "none",
     refresh_calls |-> 0, exchange_calls |-> 0,
     token_data |-> None, called_at |-> 0, at_call |-> NoFile,
     connections |-> <<>>, saved_at |-> 0,
     used |-> {}, skipped |-> {}, refreshed |-> <<>>, wrote |-> {},
     pre |-> NoFile, post |-> NoFile,
     prev |-> [op |-> "none", error |-> Returned, provider |-> "none"]]

Respond(outcome) ==
    last' = [outcome EXCEPT !.prev = [op |-> last.op, error |-> last.error,
                                      provider |-> last.provider]]

\* json.dump(tokens, f) as main.py calls it: the name json is looked up in
\* main.py's globals, after open(path, 'w') has truncated the file.
main_json_dump(tokens) ==
    IF "json" \in MainGlobals
    THEN [raised |-> FALSE, file |-> JsonFile(tokens)]
    ELSE [raised |-> TRUE, file |-> EmptyFile]

\* main.py, "Remove the temporary token"
remove_temp_token(f) ==
    LET tokens == _load_tokens(f)
    IN  IF TempTenant \in DOMAIN tokens
        THEN main_json_dump(DictDel(tokens, TempTenant))
        ELSE [raised |-> FALSE, file |-> f]

\* main.py, "Now store the token properly for each tenant"; save_token
\* stamps the one token_data dict in place at every turn of the loop.
RECURSIVE save_connections(_, _, _, _)
save_connections(f, connections, token_data, t) ==
    IF connections = <<>>
    THEN f
    ELSE save_connections(save_token(f, Head(connections), token_data, t),
                          Tail(connections), add_expiry(token_data, t), t)

----------------------------------------------------------------------------
Init ==
    /\ file = NoFile
    /\ now = 0
    /\ ticks = 0
    /\ issued = 0
    /\ reqs = EmptyBag
    /\ last = NoOutcome
    /\ savers = [k \in Keys |-> [pc |-> "idle", tokens |-> EmptyDict]]

\* The clock moves on by a second, or to the last second before a stored
\* record expires.
NextInstants ==
    LET tokens == _load_tokens(file)
    IN  {now + 1} \cup
        {t \in {fromisoformat(tokens[k]["expires_at"]) - 1 : k \in DOMAIN tokens} :
           t > now}

Tick ==
    /\ ticks < MaxTicks
    /\ \E t \in NextInstants : now' = t
    /\ ticks' = ticks + 1
    /\ UNCHANGED <<file, issued, reqs, last, savers>>

(* GET /callback: one await, at exchange_code_for_token *)

CallbackNoCode ==
    /\ Respond([NoOutcome EXCEPT !.op = "xero_callback", !.error = NoCode,
                                 !.pre = file, !.post = file])
    /\ UNCHANGED <<file, now, ticks, issued, reqs, savers>>

CallbackExchange ==
    /\ CanAccept
    /\ Suspend([pc |-> "exchange", exchange_calls |-> 1])
    /\ UNCHANGED <<file, now, ticks, issued, last, savers>>

CallbackExchangeOk(req) ==
    /\ req.pc = "exchange"
    /\ issued < MaxIssued
    /\ \E e \in ExpiresInChoices :
         LET token_data == TokenPayload(issued + 1, e)
         IN  /\ file' = save_token(file, TempTenant, token_data, now)
             /\ Respond([NoOutcome EXCEPT
                           !.op = "xero_callback", !.error = Returned,
                           !.code = TRUE, !.provider = "ok",
                           !.exchange_calls = req.exchange_calls,
                           !.access_token = token_data["access_token"],
                           !.token_data = token_data,
                           !.pre = file, !.post = file'])
    /\ issued' = issued + 1
    /\ Resume(req)
    /\ UNCHANGED <<now, ticks, savers>>

\* save_token moved out of the try block: the error body is stored too
CallbackExchangeFail_saves(req) ==
    /\ req.pc = "exchange"
    /\ file' = save_token(file, TempTenant, EmptyDict, now)
    /\ Respond([NoOutcome EXCEPT !.op = "xero_callback",
                                 !.error = ExchangeError,
                                 !.code = TRUE, !.provider = "failed",
                                 !.exchange_calls = req.exchange_calls,
                                 !.pre = file, !.post = file'])
    /\ Resume(req)
    /\ UNCHANGED <<now, ticks, issued, savers>>

CallbackExchangeFail(req) ==
    /\ req.pc = "exchange"
    /\ Respond([NoOutcome EXCEPT !.op = "xero_callback",
                                 !.error = ExchangeError,
                                 !.code = TRUE, !.provider = "failed",
                                 !.exchange_calls = req.exchange_calls,
                                 !.pre = file, !.post = file])
    /\ Resume(req)
    /\ UNCHANGED <<file, now, ticks, issued, savers>>

(* GET /api/v1/xero/connections: no await, one stretch *)

\* the guard on the temporary token left out: the call returns no connections
GetConnectionsNoAuth_returns ==
    /\ Falsy(get_token(file, TempTenant))
    /\ Respond([NoOutcome EXCEPT !.op = "get_connections",
                                 !.error = Returned,
                                 !.at_call = file,
                                 !.pre = file, !.post = file])
    /\ UNCHANGED <<file, now, ticks, issued, reqs, savers>>

GetConnectionsNoAuth ==
    /\ Falsy(get_token(file, TempTenant))
    /\ Respond([NoOutcome EXCEPT !.op = "get_connections",
                                 !.error = NoAuthorization,
                                 !.at_call = file,
                                 !.pre = file, !.post = file])
    /\ UNCHANGED <<file, now, ticks, issued, reqs, savers>>

GetConnectionsLookupFail ==
    LET token_data == get_token(file, TempTenant)
    IN  /\ ~Falsy(token_data)
        /\ Respond([NoOutcome EXCEPT !.op = "get_connections",
                                     !.error = LookupFailed,
                                     !.provider = "failed",
                                     !.access_token = token_data["access_token"],
                                     !.at_call = file,
                                     !.pre = file, !.post = file])
        /\ UNCHANGED <<file, now, ticks, issued, reqs, savers>>

GetConnectionsLookupOk(connections) ==
    LET token_data == get_token(file, TempTenant)
        saved == save_connections(file, connections, token_data, now)
        removed == remove_temp_token(saved)
    IN  /\ ~Falsy(token_data)
        /\ file' = removed.file
        /\ Respond([NoOutcome EXCEPT
                      !.op = "get_connections",
                      !.error = IF removed.raised THEN NameError ELSE Returned,
                      !.provider = "ok",
                      !.access_token = token_data["access_token"],
                      !.connections = connections,
                      !.at_call = file,
                      !.pre = file, !.post = file'])
        /\ UNCHANGED <<now, ticks, issued, reqs, savers>>

(* GET /api/v1/xero/invoices, up to create_api_client: one await, at *)
(* refresh_token                                                      *)

InvoicesNotAuthorized(tenant_id) ==
    /\ Falsy(get_token(file, tenant_id))
    /\ Respond([NoOutcome EXCEPT !.op = "get_invoices",
                                 !.tenant_id = tenant_id,
                                 !.error = NotAuthorized,
                                 !.called_at = now, !.at_call = file,
                                 !.pre = file, !.post = file])
    /\ UNCHANGED <<file, now, ticks, issued, reqs, savers>>

InvoicesFresh(tenant_id) ==
    LET token_data == get_token(file, tenant_id)
    IN  /\ ~Falsy(token_data)
        /\ ~is_token_expired(file, tenant_id, now)
        /\ Respond([NoOutcome EXCEPT
                      !.op = "get_invoices",
                      !.tenant_id = tenant_id,
                      !.error = Returned,
                      !.access_token = token_data["access_token"],
                      !.called_at = now, !.at_call = file,
                      !.pre = file, !.post = file])
        /\ UNCHANGED <<file, now, ticks, issued, reqs, savers>>

InvoicesRefresh(tenant_id) ==
    LET token_data == get_token(file, tenant_id)
    IN  /\ CanAccept
        /\ ~Falsy(token_data)
        /\ is_token_expired(file, tenant_id, now)
        /\ Suspend([pc |-> "refresh", tenant_id |-> tenant_id,
                     refresh_token |-> token_data["refresh_token"],
                     refresh_calls |-> 1,
                     called_at |-> now, at_call |-> file])
        /\ UNCHANGED <<file, now, ticks, issued, last, savers>>

\* the write-back made from the snapshot read when the handler was called
InvoicesRefreshOk_stale_snapshot(req) ==
    /\ req.pc = "refresh"
    /\ issued < MaxIssued
    /\ \E e \in ExpiresInChoices :
         LET token_data == TokenPayload(issued + 1, e)
         IN  /\ file' = save_token(req.at_call, req.tenant_id, token_data, now)
             /\ Respond([NoOutcome EXCEPT
                           !.op = "get_invoices",
                           !.tenant_id = req.tenant_id,
                           !.error = Returned,
                           !.provider = "ok",
                           !.access_token = token_data["access_token"],
                           !.token_data = token_data,
                           !.refresh_calls = req.refresh_calls,
                           !.called_at = req.called_at,
                           !.at_call = req.at_call,
                           !.saved_at = now,
                           !.pre = file, !.post = file'])
    /\ issued' = issued + 1
    /\ Resume(req)
    /\ UNCHANGED <<now, ticks, savers>>

\* the refresh token the record had is kept, the rotated one dropped
InvoicesRefreshOk_keeps_refresh_token(req) ==
    /\ req.pc = "refresh"
    /\ issued < MaxIssued
    /\ \E e \in ExpiresInChoices :
         LET token_data == TokenPayload(issued + 1, e)
         IN  /\ file' = save_token(file, req.tenant_id,
                                   [token_data EXCEPT
                                      !["refresh_token"] = req.refresh_token],
                                   now)
             /\ Respond([NoOutcome EXCEPT
                           !.op = "get_invoices",
                           !.tenant_id = req.tenant_id,
                           !.error = Returned,
                           !.provider = "ok",
                           !.access_token = token_data["access_token"],
                           !.token_data = token_data,
                           !.refresh_calls = req.refresh_calls,
                           !.called_at = req.called_at,
                           !.at_call = req.at_call,
                           !.saved_at = now,
                           !.pre = file, !.post = file'])
    /\ issued' = issued + 1
    /\ Resume(req)
    /\ UNCHANGED <<now, ticks, savers>>

InvoicesRefreshOk(req) ==
    /\ req.pc = "refresh"
    /\ issued < MaxIssued
    /\ \E e \in ExpiresInChoices :
         LET token_data == TokenPayload(issued + 1, e)
         IN  /\ file' = save_token(file, req.tenant_id, token_data, now)
             /\ Respond([NoOutcome EXCEPT
                           !.op = "get_invoices",
                           !.tenant_id = req.tenant_id,
                           !.error = Returned,
                           !.provider = "ok",
                           !.access_token = token_data["access_token"],
                           !.token_data = token_data,
                           !.refresh_calls = req.refresh_calls,
                           !.called_at = req.called_at,
                           !.at_call = req.at_call,
                           !.saved_at = now,
                           !.pre = file, !.post = file'])
    /\ issued' = issued + 1
    /\ Resume(req)
    /\ UNCHANGED <<now, ticks, savers>>

\* a failed refresh that also drops the stale record
InvoicesRefreshFail_drops_record(req) ==
    /\ req.pc = "refresh"
    /\ file' = JsonFile(DictDel(_load_tokens(file), req.tenant_id))
    /\ Respond([NoOutcome EXCEPT !.op = "get_invoices",
                                 !.tenant_id = req.tenant_id,
                                 !.error = RefreshFailed,
                                 !.provider = "failed",
                                 !.refresh_calls = req.refresh_calls,
                                 !.called_at = req.called_at,
                                 !.at_call = req.at_call,
                                 !.pre = file, !.post = file'])
    /\ Resume(req)
    /\ UNCHANGED <<now, ticks, issued, savers>>

InvoicesRefreshFail(req) ==
    /\ req.pc = "refresh"
    /\ Respond([NoOutcome EXCEPT !.op = "get_invoices",
                                 !.tenant_id = req.tenant_id,
                                 !.error = RefreshFailed,
                                 !.provider = "failed",
                                 !.refresh_calls = req.refresh_calls,
                                 !.called_at = req.called_at,
                                 !.at_call = req.at_call,
                                 !.pre = file, !.post = file])
    /\ Resume(req)
    /\ UNCHANGED <<file, now, ticks, issued, savers>>

Next ==
    \/ Tick
    \/ CallbackNoCode
    \/ CallbackExchange
    \/ \E req \in Suspended("exchange") : CallbackExchangeOk(req)
    \/ \E req \in Suspended("exchange") : CallbackExchangeFail(req)
    \/ GetConnectionsNoAuth
    \/ GetConnectionsLookupFail
    \/ \E connections \in ConnectionLists : GetConnectionsLookupOk(connections)
    \/ \E tenant_id \in Keys : InvoicesNotAuthorized(tenant_id)
    \/ \E tenant_id \in Keys : InvoicesFresh(tenant_id)
    \/ \E tenant_id \in Keys : InvoicesRefresh(tenant_id)
    \/ \E req \in Suspended("refresh") : InvoicesRefreshOk(req)
    \/ \E req \in Suspended("refresh") : InvoicesRefreshFail(req)

Spec == Init /\ [][Next]_vars

----------------------------------------------------------------------------
(* The handlers of Spec, and clear_tokens called between them *)

ResetClear ==
    /\ file' = clear_tokens(file)
    /\ Respond([NoOutcome EXCEPT !.op = "clear_tokens",
                                 !.pre = file, !.post = file'])
    /\ UNCHANGED <<now, ticks, issued, reqs, savers>>

NextReset ==
    \/ Next
    \/ ResetClear

SpecReset == Init /\ [][NextReset]_vars

----------------------------------------------------------------------------
(* The TokenStorage API called directly, one call after another *)

\* the snapshot not merged: the file is left with the saved record alone
StoreSave_alone(tenant_id) ==
    /\ issued < MaxIssued
    /\ \E e \in ExpiresInChoices :
         LET token_data == TokenPayload(issued + 1, e)
         IN  /\ file' = save_token(NoFile, tenant_id, token_data, now)
             /\ Respond([NoOutcome EXCEPT
                           !.op = "save_token",
                           !.tenant_id = tenant_id,
                           !.token_data = token_data,
                           !.called_at = now, !.at_call = file,
                           !.pre = file, !.post = file'])
    /\ issued' = issued + 1
    /\ UNCHANGED <<now, ticks, reqs, savers>>

StoreSave(tenant_id) ==
    /\ issued < MaxIssued
    /\ \E e \in ExpiresInChoices :
         LET token_data == TokenPayload(issued + 1, e)
         IN  /\ file' = save_token(file, tenant_id, token_data, now)
             /\ Respond([NoOutcome EXCEPT
                           !.op = "save_token",
                           !.tenant_id = tenant_id,
                           !.token_data = token_data,
                           !.called_at = now, !.at_call = file,
                           !.pre = file, !.post = file'])
    /\ issued' = issued + 1
    /\ UNCHANGED <<now, ticks, reqs, savers>>

StoreClear ==
    /\ file' = clear_tokens(file)
    /\ Respond([NoOutcome EXCEPT !.op = "clear_tokens",
                                 !.called_at = now, !.at_call = file,
                                 !.pre = file, !.post = file'])
    /\ UNCHANGED <<now, ticks, issued, reqs, savers>>

\* tokens.json damaged from outside the program: cut to zero length, or left
\* with content that is not JSON
StoreDamaged ==
    /\ file.state \in {"json", "missing"}
    /\ \E f \in {EmptyFile, CorruptFile} : file' = f
    /\ Respond([NoOutcome EXCEPT !.op = "damaged",
                                 !.pre = file, !.post = file'])
    /\ UNCHANGED <<now, ticks, issued, reqs, savers>>

NextStore ==
    \/ Tick
    \/ \E tenant_id \in Keys : StoreSave(tenant_id)
    \/ StoreClear
    \/ StoreDamaged

SpecStore == Init /\ [][NextStore]_vars

----------------------------------------------------------------------------
(* save_token called from one thread per key at once, on an empty store: *)
(* each thread at its own line of save_token                             *)

SaverToken(k) ==
    IF k = TempTenant THEN 1 ELSE IF k = "tenant_a" THEN 2 ELSE 3

InitSave ==
    /\ file = NoFile
    /\ now = 0
    /\ ticks = 0
    /\ issued = 0
    /\ reqs = EmptyBag
    /\ last = NoOutcome
    /\ savers = [k \in Keys |-> [pc |-> "load", tokens |-> EmptyDict]]

\* tokens = self._load_tokens()
SaveLoad(k) ==
    /\ savers[k].pc = "load"
    /\ savers' = [savers EXCEPT ![k] = [pc |-> "merge",
                                        tokens |-> _load_tokens(file)]]
    /\ UNCHANGED <<file, now, ticks, issued, reqs, last>>

\* token_data['expires_at'] = ...; tokens[tenant_id] = token_data
SaveMerge(k) ==
    /\ savers[k].pc = "merge"
    /\ \E e \in ExpiresInChoices :
         savers' = [savers EXCEPT ![k] =
                      [pc |-> "open",
                       tokens |-> DictSet(savers[k].tokens, k,
                                    add_expiry(TokenPayload(SaverToken(k), e),
                                               now))]]
    /\ UNCHANGED <<file, now, ticks, issued, reqs, last>>

\* with open(self.storage_path, 'w') as f
SaveOpen(k) ==
    /\ savers[k].pc = "open"
    /\ file' = EmptyFile
    /\ savers' = [savers EXCEPT ![k].pc = "dump"]
    /\ UNCHANGED <<now, ticks, issued, reqs, last>>

\* json.dump(tokens, f, indent=2)
SaveDump(k) ==
    /\ savers[k].pc = "dump"
    /\ file' = JsonFile(savers[k].tokens)
    /\ savers' = [savers EXCEPT ![k].pc = "done"]
    /\ UNCHANGED <<now, ticks, issued, reqs, last>>

NextSave ==
    \/ \E k \in Keys : SaveLoad(k)
    \/ \E k \in Keys : SaveMerge(k)
    \/ \E k \in Keys : SaveOpen(k)
    \/ \E k \in Keys : SaveDump(k)

SpecSave == InitSave /\ [][NextSave]_vars

----------------------------------------------------------------------------
(* save_token called one call after another, the process killed at any     *)
(* line of a call: nothing runs after the kill, and the process started    *)
(* next reads what is on disk                                              *)

\* no other call is under way and the process is alive
Alone(k) == \A j \in Keys \ {k} : savers[j].pc \in {"load", "done"}

SerialLoad(k) == Alone(k) /\ SaveLoad(k)

SerialMerge(k) == Alone(k) /\ SaveMerge(k)

SerialOpen(k) == Alone(k) /\ SaveOpen(k)

SerialDump(k) == Alone(k) /\ SaveDump(k)

\* the process dies where call k stands: before the merge, before open() or
\* between open() and json.dump()
Kill(k) ==
    /\ Alone(k)
    /\ savers[k].pc \in {"merge", "open", "dump"}
    /\ savers' = [savers EXCEPT ![k].pc = "killed"]
    /\ UNCHANGED <<file, now, ticks, issued, reqs, last>>

NextCrash ==
    \/ \E k \in Keys : SerialLoad(k)
    \/ \E k \in Keys : SerialMerge(k)
    \/ \E k \in Keys : SerialOpen(k)
    \/ \E k \in Keys : SerialDump(k)
    \/ \E k \in Keys : Kill(k)

SpecCrash == InitSave /\ [][NextCrash]_vars

----------------------------------------------------------------------------
(* get_connections taken line by line while save_token runs for one tenant *)
(* in another thread (or in a second worker on the same tokens.json),      *)
(* after a callback has stored the temporary token; the                    *)
(* handler is called in the second of the callback or in the next one      *)

CallbackToken == SaverToken(TempTenant)

CallbackInstant == 0

\* the handler at the line pc, with its locals
ConnAt(pc, token_data, connections, found, tokens) ==
    [pc |-> pc, token_data |-> token_data, connections |-> connections,
     found |-> found, tokens |-> tokens]

InitResolve ==
    /\ \E e \in ExpiresInChoices :
         file = save_token(NoFile, TempTenant,
                           TokenPayload(CallbackToken, e), CallbackInstant)
    /\ now \in {CallbackInstant, CallbackInstant + 1}
    /\ ticks = now - CallbackInstant
    /\ issued = CallbackToken
    /\ reqs = SetToBag({ConnAt("get_token", None, <<>>, <<>>, EmptyDict)})
    /\ last = NoOutcome
    /\ \E tenant_id \in Tenants :
         savers = [k \in Keys |->
                     IF k = TempTenant
                     THEN [pc |-> "done", tokens |-> _load_tokens(file)]
                     ELSE IF k = tenant_id
                     THEN [pc |-> "load", tokens |-> EmptyDict]
                     ELSE [pc |-> "idle", tokens |-> EmptyDict]]

Goto(req, next) == reqs' = (reqs (-) SetToBag({req})) (+) SetToBag({next})

ConnRespond(req, error, provider) ==
    /\ Respond([NoOutcome EXCEPT
                  !.op = "get_connections", !.error = error,
                  !.provider = provider,
                  !.connections = req.found,
                  !.pre = file, !.post = file'])
    /\ Resume(req)

\* token_data = token_storage.get_token("temp_tenant")
ConnGetToken(req) ==
    /\ req.pc = "get_token"
    /\ ~Falsy(get_token(file, TempTenant))
    /\ Goto(req, ConnAt("lookup", get_token(file, TempTenant),
                        <<>>, <<>>, EmptyDict))
    /\ UNCHANGED <<file, now, ticks, issued, last, savers>>

\* if not token_data: raise HTTPException(401)
ConnNoAuth(req) ==
    /\ req.pc = "get_token"
    /\ Falsy(get_token(file, TempTenant))
    /\ UNCHANGED file
    /\ ConnRespond(req, NoAuthorization, "none")
    /\ UNCHANGED <<now, ticks, issued, savers>>

\* connections = identity_api.get_connections()
ConnLookupOk(req, connections) ==
    /\ req.pc = "lookup"
    /\ Goto(req, ConnAt(IF connections = <<>> THEN "remove_load"
                                               ELSE "save_load",
                        req.token_data, connections, connections, EmptyDict))
    /\ UNCHANGED <<file, now, ticks, issued, last, savers>>

ConnLookupFail(req) ==
    /\ req.pc = "lookup"
    /\ UNCHANGED file
    /\ ConnRespond(req, LookupFailed, "failed")
    /\ UNCHANGED <<now, ticks, issued, savers>>

\* save_token(connection.tenant_id, token_data), up to tokens[tenant_id] =
\* token_data: the handler's one token_data dict is stamped in place
ConnSaveLoad(req) ==
    /\ req.pc = "save_load"
    /\ LET token_data == add_expiry(req.token_data, now)
       IN  Goto(req, ConnAt("save_open", token_data, req.connections,
                            req.found,
                            DictSet(_load_tokens(file), Head(req.connections),
                                    token_data)))
    /\ UNCHANGED <<file, now, ticks, issued, last, savers>>

\* save_token: with open(self.storage_path, 'w') as f
ConnSaveOpen(req) ==
    /\ req.pc = "save_open"
    /\ file' = EmptyFile
    /\ Goto(req, [req EXCEPT !.pc = "save_dump"])
    /\ UNCHANGED <<now, ticks, issued, last, savers>>

\* save_token: json.dump(tokens, f, indent=2), and on to the next connection
ConnSaveDump(req) ==
    /\ req.pc = "save_dump"
    /\ file' = JsonFile(req.tokens)
    /\ Goto(req, ConnAt(IF Tail(req.connections) = <<>> THEN "remove_load"
                                                        ELSE "save_load",
                        req.token_data, Tail(req.connections), req.found,
                        EmptyDict))
    /\ UNCHANGED <<now, ticks, issued, last, savers>>

\* tokens = token_storage._load_tokens(); "temp_tenant" in tokens: del
ConnRemoveLoad(req) ==
    /\ req.pc = "remove_load"
    /\ TempTenant \in DOMAIN _load_tokens(file)
    /\ Goto(req, [req EXCEPT !.pc = "remove_open",
                             !.tokens = DictDel(_load_tokens(file), TempTenant)])
    /\ UNCHANGED <<file, now, ticks, issued, last, savers>>

\* "temp_tenant" not in tokens: nothing to remove, the handler returns
ConnRemoveNone(req) ==
    /\ req.pc = "remove_load"
    /\ TempTenant \notin DOMAIN _load_tokens(file)
    /\ UNCHANGED file
    /\ ConnRespond(req, Returned, "ok")
    /\ UNCHANGED <<now, ticks, issued, savers>>

\* with open(token_storage.storage_path, 'w') as f
ConnRemoveOpen(req) ==
    /\ req.pc = "remove_open"
    /\ file' = EmptyFile
    /\ Goto(req, [req EXCEPT !.pc = "remove_dump"])
    /\ UNCHANGED <<now, ticks, issued, last, savers>>

\* json.dump(tokens, f, indent=2) in main.py; what it raises is caught at
\* `except Exception` and answered with a 500
ConnRemoveDump(req) ==
    /\ req.pc = "remove_dump"
    /\ LET dumped == main_json_dump(req.tokens)
       IN  /\ file' = IF dumped.raised THEN file ELSE dumped.file
           /\ ConnRespond(req, IF dumped.raised THEN NameError ELSE Returned,
                          "ok")
    /\ UNCHANGED <<now, ticks, issued, savers>>

NextResolve ==
    \/ \E req \in BagToSet(reqs) : ConnGetToken(req)
    \/ \E req \in BagToSet(reqs) : ConnNoAuth(req)
    \/ \E req \in BagToSet(reqs), connections \in ConnectionLists :
         ConnLookupOk(req, connections)
    \/ \E req \in BagToSet(reqs) : ConnLookupFail(req)
    \/ \E req \in BagToSet(reqs) : ConnSaveLoad(req)
    \/ \E req \in BagToSet(reqs) : ConnSaveOpen(req)
    \/ \E req \in BagToSet(reqs) : ConnSaveDump(req)
    \/ \E req \in BagToSet(reqs) : ConnRemoveLoad(req)
    \/ \E req \in BagToSet(reqs) : ConnRemoveNone(req)
    \/ \E req \in BagToSet(reqs) : ConnRemoveOpen(req)
    \/ \E req \in BagToSet(reqs) : ConnRemoveDump(req)
    \/ \E k \in Tenants : SaveLoad(k)
    \/ \E k \in Tenants : SaveMerge(k)
    \/ \E k \in Tenants : SaveOpen(k)
    \/ \E k \in Tenants : SaveDump(k)

SpecResolve == InitResolve /\ [][NextResolve]_vars

----------------------------------------------------------------------------
(* The handlers that serve stored tenants, get_invoices and               *)
(* get_organizations, on the store as get_connections has it after its     *)
(* loop of save_token calls: the callback's token under "temp_tenant" and  *)
(* under each connection.  get_organizations is also called on the store   *)
(* as it is before the first callback.                                     *)

InitTenants ==
    /\ \E e \in ExpiresInChoices, connections \in ConnectionLists :
         LET temp == save_token(NoFile, TempTenant,
                                TokenPayload(CallbackToken, e), CallbackInstant)
         IN  file = save_connections(temp, connections,
                                     get_token(temp, TempTenant),
                                     CallbackInstant)
    /\ now = CallbackInstant
    /\ ticks = 0
    /\ issued = CallbackToken
    /\ reqs = EmptyBag
    /\ last = NoOutcome
    /\ savers = [k \in Keys |-> [pc |-> "idle", tokens |-> EmptyDict]]

\* the orders tokens.items() can yield the keys in: the order they were first
\* saved in, "temp_tenant" by the callback before any connection, the
\* connections in the order the lookup listed them
Orders(keys) ==
    {order \in [1 .. Cardinality(keys) -> keys] :
       /\ \A i, j \in DOMAIN order : order[i] = order[j] => i = j
       /\ TempTenant \in keys => order[1] = TempTenant}

\* the loop of get_organizations from the tenant Head(order) on, up to the
\* next await: a tenant whose record in tokens.json is not expired gets its
\* API client from the token_data read at the start of the handler
RECURSIVE orgs_loop(_, _, _, _, _)
orgs_loop(order, tokens, f, t, used) ==
    IF order = <<>>
    THEN [await |-> FALSE, tenant_id |-> "", rest |-> <<>>, used |-> used]
    ELSE IF is_token_expired(f, Head(order), t)
    THEN [await |-> TRUE, tenant_id |-> Head(order), rest |-> Tail(order),
          used |-> used]
    ELSE orgs_loop(Tail(order), tokens, f, t,
                   used \cup {<<Head(order),
                                tokens[Head(order)]["access_token"]>>})

\* the keys whose record in tokens.json g is not the one in f
Written(f, g) == {k \in Keys : get_token(f, k) # get_token(g, k)}

\* get_organizations suspended at `await refresh_token(...)` for tenant_id;
\* used, skipped, refreshed and wrote are kept for the outcome
OrgsAt(tenant_id, rest, tokens, used, skipped, refreshed, wrote) ==
    [pc |-> "orgs_refresh", tenant_id |-> tenant_id,
     refresh_token |-> tokens[tenant_id]["refresh_token"],
     rest |-> rest, tokens |-> tokens, used |-> used, skipped |-> skipped,
     refreshed |-> refreshed, wrote |-> wrote]

OrgsOutcome(tokens, used, skipped, refreshed, wrote, pre, post) ==
    [NoOutcome EXCEPT !.op = "get_organizations", !.error = Returned,
                      !.at_call = JsonFile(tokens),
                      !.used = used, !.skipped = skipped,
                      !.refreshed = refreshed, !.wrote = wrote,
                      !.pre = pre, !.post = post]

\* the handler goes on after a refresh: to the next await, or to its return
OrgsGoOn(req, loop, skipped, refreshed) ==
    IF loop.await
    THEN /\ Goto(req, OrgsAt(loop.tenant_id, loop.rest, req.tokens, loop.used,
                             skipped, refreshed,
                             req.wrote \cup Written(file, file')))
         /\ UNCHANGED last
    ELSE /\ Respond(OrgsOutcome(req.tokens, loop.used, skipped, refreshed,
                                req.wrote \cup Written(file, file'),
                                file, file'))
         /\ Resume(req)

OrgsNoConnections ==
    /\ Falsy(_load_tokens(file))
    /\ Respond([NoOutcome EXCEPT !.op = "get_organizations",
                                 !.error = NoConnections,
                                 !.at_call = file,
                                 !.pre = file, !.post = file])
    /\ UNCHANGED <<file, now, ticks, issued, reqs, savers>>

\* no stored record is expired: the handler returns without an await
OrgsReturn(order) ==
    LET tokens == _load_tokens(file)
        loop == orgs_loop(order, tokens, file, now, {})
    IN  /\ ~Falsy(tokens)
        /\ ~loop.await
        /\ Respond(OrgsOutcome(tokens, loop.used, {}, <<>>, {}, file, file))
        /\ UNCHANGED <<file, now, ticks, issued, reqs, savers>>

\* get_organizations is accepted while fewer than MaxOrgs calls of it are
\* suspended
OrgsRefresh(order) ==
    LET tokens == _load_tokens(file)
        loop == orgs_loop(order, tokens, file, now, {})
    IN  /\ ~Falsy(tokens)
        /\ loop.await
        /\ InFlight("orgs_refresh") < MaxOrgs
        /\ Suspend(OrgsAt(loop.tenant_id, loop.rest, tokens, loop.used,
                          {}, <<>>, {}))
        /\ UNCHANGED <<file, now, ticks, issued, last, savers>>

OrgsRefreshOk(req) ==
    /\ req.pc = "orgs_refresh"
    /\ issued < MaxIssued
    /\ \E e \in ExpiresInChoices :
         LET new_token == TokenPayload(issued + 1, e)
             saved == save_token(file, req.tenant_id, new_token, now)
         IN  /\ file' = saved
             /\ OrgsGoOn(req,
                         orgs_loop(req.rest, req.tokens, saved, now,
                                   req.used \cup
                                     {<<req.tenant_id,
                                        new_token["access_token"]>>}),
                         req.skipped, Append(req.refreshed, req.tenant_id))
    /\ issued' = issued + 1
    /\ UNCHANGED <<now, ticks, savers>>

\* the error raised instead of logged: the handler fails at the first tenant
\* whose refresh fails
OrgsRefreshFail_raises(req) ==
    /\ req.pc = "orgs_refresh"
    /\ Respond([NoOutcome EXCEPT !.op = "get_organizations",
                                 !.error = RefreshFailed,
                                 !.at_call = JsonFile(req.tokens),
                                 !.used = req.used,
                                 !.skipped = req.skipped \cup {req.tenant_id},
                                 !.refreshed =
                                     Append(req.refreshed, req.tenant_id),
                                 !.wrote = req.wrote,
                                 !.pre = file, !.post = file])
    /\ Resume(req)
    /\ UNCHANGED <<file, now, ticks, issued, savers>>

\* except Exception: logger.error(...); continue
OrgsRefreshFail(req) ==
    /\ req.pc = "orgs_refresh"
    /\ UNCHANGED file
    /\ OrgsGoOn(req, orgs_loop(req.rest, req.tokens, file, now, req.used),
                req.skipped \cup {req.tenant_id},
                Append(req.refreshed, req.tenant_id))
    /\ UNCHANGED <<now, ticks, issued, savers>>

\* get_invoices on its refresh path; a call that finds no record or a fresh
\* one leaves file and reqs as they are (Spec has those paths)
NextTenants ==
    \/ Tick
    \/ \E tenant_id \in Keys : InvoicesRefresh(tenant_id)
    \/ \E req \in Suspended("refresh") : InvoicesRefreshOk(req)
    \/ \E req \in Suspended("refresh") : InvoicesRefreshFail(req)

SpecTenants == InitTenants /\ [][NextTenants]_vars

InitOrgs ==
    /\ \/ InitTenants
       \/ Init

NextOrgs ==
    \/ Tick
    \/ OrgsNoConnections
    \/ \E order \in Orders(DOMAIN _load_tokens(file)) : OrgsReturn(order)
    \/ \E order \in Orders(DOMAIN _load_tokens(file)) : OrgsRefresh(order)
    \/ \E req \in Suspended("orgs_refresh") : OrgsRefreshOk(req)
    \/ \E req \in Suspended("orgs_refresh") : OrgsRefreshFail(req)

SpecOrgs == InitOrgs /\ [][NextOrgs]_vars

----------------------------------------------------------------------------
(* Properties *)

\* tokens.json f holds a record under key k
Stored(f, k) == f.state = "json" /\ k \in DOMAIN f.tokens

\* the instant written in a stored record's expires_at
ExpiresAt(record) ==
    record["expires_at"][1] * 3600 + record["expires_at"][2] * 60
        + record["expires_at"][3]

\* the record the last call found under its tenant when it was called
RecordAtCall == last.at_call.tokens[last.tenant_id]

\* C1: for a tenant with no stored record, the token acquisition of the
\* invoices handler fails with NotAuthorized, makes no refresh call and
\* leaves the store as it was.
C1_NoRecordNotAuthorized ==
    (last.op = "get_invoices" /\ ~Stored(last.at_call, last.tenant_id))
        => /\ last.error = NotAuthorized
           /\ last.refresh_calls = 0
           /\ last.pre = last.at_call
           /\ last.post = last.pre

C1_Witness ==
    /\ last.op = "get_invoices"
    /\ last.tenant_id \in Tenants
    /\ ~Stored(last.at_call, last.tenant_id)
    /\ Stored(last.at_call, TempTenant)
    /\ last.error = NotAuthorized

\* C2: after a successful complete(code), resolve_tenants() with a lookup
\* that returns two tenants succeeds and leaves exactly the two tenants'
\* records in the snapshot, and none under "temp_tenant".
C2_TwoTenantsNoSentinel ==
    (/\ last.op = "get_connections"
     /\ last.provider = "ok"
     /\ Len(last.connections) = 2
     /\ last.prev.op = "xero_callback"
     /\ last.prev.error = Returned
     /\ Stored(last.pre, TempTenant)
     /\ DOMAIN last.pre.tokens = {TempTenant})
        => /\ last.error = Returned
           /\ last.post.state = "json"
           /\ DOMAIN last.post.tokens =
                {last.connections[1], last.connections[2]}

\* C3 as claimed: a second resolve_tenants() in a row, finding the sentinel
\* already gone, returns without error and leaves the snapshot as it is.
C3_SecondResolveReturns ==
    (/\ last.op = "get_connections"
     /\ last.prev.op = "get_connections"
     /\ last.prev.provider = "ok"
     /\ ~Stored(last.at_call, TempTenant))
        => /\ last.error = Returned
           /\ last.post = last.pre

\* C3 as amended: resolve_tenants() called when the sentinel is gone (as a
\* second call in a row finds it) leaves the snapshot exactly as it found it,
\* but it fails with 401 "No authorization found".
C3_SecondResolveUnauthorized ==
    (last.op = "get_connections" /\ ~Stored(last.at_call, TempTenant))
        => /\ last.error = NoAuthorization
           /\ last.provider = "none"
           /\ last.post = last.pre
           /\ last.pre = last.at_call

C3_Witness ==
    /\ last.op = "get_connections"
    /\ last.prev.op = "get_connections"
    /\ last.prev.provider = "ok"
    /\ ~Stored(last.at_call, TempTenant)
    /\ last.error = NoAuthorization

\* C4: after concurrent saves for distinct tenants into an empty store have
\* all finished, the snapshot holds one record per tenant, none lost.
C4_NoSaveLost ==
    (\A k \in Keys : savers[k].pc = "done")
        => /\ file.state = "json"
           /\ DOMAIN file.tokens = Keys

\* C5: a call of the invoices handler for a stored record whose expires_at
\* has been reached (now >= expires_at) makes exactly one refresh call before
\* it returns, whether the refresh succeeds or fails.
C5_ExpiredRefreshesOnce ==
    (/\ last.op = "get_invoices"
     /\ Stored(last.at_call, last.tenant_id)
     /\ last.called_at >= ExpiresAt(RecordAtCall))
        => /\ last.refresh_calls = 1
           /\ last.provider \in {"ok", "failed"}

C5_Witness ==
    /\ last.op = "get_invoices"
    /\ Stored(last.at_call, last.tenant_id)
    /\ last.called_at = ExpiresAt(RecordAtCall)
    /\ last.refresh_calls = 1
    /\ last.provider = "ok"

\* C6: a call of the invoices handler for a stored record whose expires_at
\* lies strictly in the future makes no refresh call, writes nothing and
\* hands on the stored access_token.
C6_FreshNoRefresh ==
    (/\ last.op = "get_invoices"
     /\ Stored(last.at_call, last.tenant_id)
     /\ last.called_at < ExpiresAt(RecordAtCall))
        => /\ last.refresh_calls = 0
           /\ last.provider = "none"
           /\ last.error = Returned
           /\ last.access_token = RecordAtCall["access_token"]
           /\ last.pre = last.at_call
           /\ last.post = last.pre

C6_Witness ==
    /\ last.op = "get_invoices"
    /\ Stored(last.at_call, last.tenant_id)
    /\ last.called_at = ExpiresAt(RecordAtCall) - 1
    /\ last.refresh_calls = 0
    /\ last.access_token = RecordAtCall["access_token"]

\* the lifetime C7 speaks of: the payload's expires_in, 1800 when it has none
Lifetime(token_data) ==
    IF "expires_in" \in DOMAIN token_data THEN token_data["expires_in"] ELSE 1800

\* C7: after save(T, payload) at t0 with lifetime E (1800 when the payload
\* has no expires_in), is_expired(T) is false at every instant before t0 + E
\* and true from t0 + E on; is_expired is also true for a key with no record.
C7_ExpiryBoundary ==
    /\ last.op = "save_token"
         => (is_token_expired(file, last.tenant_id, now)
               <=> now >= last.called_at + Lifetime(last.token_data))
    /\ \A k \in Keys : ~Stored(file, k) => is_token_expired(file, k, now)

C7_Witness ==
    /\ last.op = "save_token"
    /\ "expires_in" \notin DOMAIN last.token_data
    /\ now = last.called_at + 1800
    /\ is_token_expired(file, last.tenant_id, now)
    /\ \E k \in Keys : ~Stored(file, k)

\* C8: when the refresh fails for an expired tenant, the call fails with
\* RefreshFailed after that one refresh call and writes nothing, so the stale
\* record and every other record stay as they were; a later successful
\* complete(code) still overwrites the record under its key.
C8_RefreshFailedKeepsRecord ==
    /\ (last.op = "get_invoices" /\ last.provider = "failed")
         => /\ last.error = RefreshFailed
            /\ last.refresh_calls = 1
            /\ last.post = last.pre
    /\ (last.op = "xero_callback" /\ last.provider = "ok")
         => /\ Stored(last.post, TempTenant)
            /\ last.post.tokens[TempTenant]["access_token"] = last.access_token

C8_Witness ==
    /\ last.op = "xero_callback"
    /\ last.provider = "ok"
    /\ last.prev.op = "get_invoices"
    /\ last.prev.error = RefreshFailed
    /\ Stored(last.pre, TempTenant)
    /\ last.pre.tokens[TempTenant]["access_token"] # last.access_token
    /\ last.post.tokens[TempTenant]["access_token"] = last.access_token

\* C9: complete(code) writes only after a successful exchange: with no code,
\* or with a failed exchange, it fails with a 400 and the store is unchanged;
\* with no code the exchange client is not called.
C9_FailedCallbackWritesNothing ==
    (last.op = "xero_callback" /\ (~last.code \/ last.provider = "failed"))
        => /\ last.error \in {NoCode, ExchangeError}
           /\ last.error.status_code = 400
           /\ last.post = last.pre
           /\ ~last.code => (last.exchange_calls = 0 /\ last.error = NoCode)
           /\ last.code => last.exchange_calls = 1

C9_Witness ==
    /\ last.op = "xero_callback"
    /\ last.code
    /\ last.provider = "failed"
    /\ last.error = ExchangeError
    /\ Stored(last.post, TempTenant)

\* C10: a failed connections lookup fails resolve_tenants() and leaves the
\* pending state intact (sentinel unchanged, no tenant record added), and the
\* next resolve_tenants(), when its lookup succeeds, completes the move to
\* the tenants' keys: it returns, the sentinel is gone and every connection
\* has its record.
C10_FailedLookupThenRetry ==
    /\ (last.op = "get_connections" /\ last.provider = "failed")
         => /\ last.error = LookupFailed
            /\ last.post = last.pre
            /\ Stored(last.post, TempTenant)
    /\ (/\ last.op = "get_connections"
        /\ last.provider = "ok"
        /\ last.prev.op = "get_connections"
        /\ last.prev.provider = "failed")
         => /\ last.error = Returned
            /\ ~Stored(last.post, TempTenant)
            /\ \A i \in 1 .. Len(last.connections) :
                 Stored(last.post, last.connections[i])

\* C11: a store write is atomic against a crash: when the process is killed
\* during a save, the snapshot the next process loads is the complete one
\* from before the write or the complete one the write was to leave, never
\* an emptied one.
C11_CrashKeepsSnapshot ==
    \A k \in Keys :
        savers[k].pc = "killed"
            => LET before == DictDel(savers[k].tokens, k)
               IN  \/ _load_tokens(file) = before
                   \/ /\ k \in DOMAIN savers[k].tokens
                      /\ _load_tokens(file) = savers[k].tokens

C14_ClearDeletesAll ==
    last.op = "clear_tokens"
        => /\ last.post = NoFile
           /\ file = last.post
           /\ \A k \in Keys : /\ Falsy(get_token(file, k))
                              /\ is_token_expired(file, k, now)
           /\ last.pre = NoFile => last.post = last.pre

C14_Witness ==
    /\ last.op = "clear_tokens"
    /\ Stored(last.pre, TempTenant)
    /\ \E k \in Tenants : Stored(last.pre, k)
    /\ file = NoFile

\* C19: save(T, payload) changes T's entry only: every other key present
\* before the save keeps its record, and the keys after the save are the keys
\* from before together with T.
C19_SaveChangesOnlyItsKey ==
    last.op = "save_token"
        => /\ DOMAIN _load_tokens(last.post)
                = DOMAIN _load_tokens(last.pre) \cup {last.tenant_id}
           /\ \A k \in DOMAIN _load_tokens(last.pre) \ {last.tenant_id} :
                get_token(last.post, k) = get_token(last.pre, k)

C19_Witness ==
    /\ last.op = "save_token"
    /\ \E k \in Keys \ {last.tenant_id} : Stored(last.pre, k)
    /\ Stored(last.post, last.tenant_id)

\* C15: a token is never taken for fresh once its lifetime has run out: every
\* record that carries the token the callback obtained at CallbackInstant,
\* under the sentinel or under a tenant it was moved to, counts as expired
\* from CallbackInstant + lifetime on (the test that makes get_valid_token
\* refresh), so a moved record expires no later than the sentinel's did.
C15_ElapsedTokenExpired ==
    \A k \in Keys :
        (Stored(file, k) /\ file.tokens[k]["access_token"] = CallbackToken)
            => is_token_expired(file, k,
                                CallbackInstant + Lifetime(file.tokens[k]))

\* C16: a save for a tenant X that get_connections does not itself move,
\* running alongside a get_connections that goes on to remove the sentinel,
\* is not lost: once both have finished, X's saved record is in the snapshot.
C16_RemovalKeepsOtherSave ==
    \A k \in Tenants :
        (/\ savers[k].pc = "done"
         /\ reqs = EmptyBag
         /\ last.op = "get_connections"
         /\ last.provider = "ok"
         /\ \A i \in 1 .. Len(last.connections) : last.connections[i] # k)
            => /\ Stored(file, k)
               /\ file.tokens[k]["access_token"] = SaverToken(k)

\* C12: every record in the snapshot, under the sentinel or under a tenant,
\* carries an expires_at, and it is a well-formed instant; whatever
\* callbacks, connection lookups, refreshes and clears have run, no record is
\* stored with its relative expires_in alone.
C12_RecordsCarryExpiresAt ==
    \A k \in DOMAIN _load_tokens(file) :
        /\ "expires_at" \in DOMAIN file.tokens[k]
        /\ file.tokens[k]["expires_at"]
             = isoformat(fromisoformat(file.tokens[k]["expires_at"]))

C12_Witness ==
    /\ last.op = "get_invoices"
    /\ last.provider = "ok"
    /\ last.prev.op = "clear_tokens"
    /\ Stored(file, last.tenant_id)
    /\ "expires_in" \in DOMAIN file.tokens[last.tenant_id]
    /\ "expires_at" \in DOMAIN file.tokens[last.tenant_id]

\* C17: two calls of get_valid_token(T) in flight at once, both having found
\* T expired, both send the refresh token stored when they were called and
\* both return the access token of their own refresh; each write-back leaves
\* under T exactly the payload of that refresh (plus its expires_at), so
\* after both T's record is the later writer's payload, and no other key's
\* record changes.
C17_RefreshRaceLastWriteWins ==
    /\ \A req \in Suspended("refresh") :
         /\ is_token_expired(req.at_call, req.tenant_id, req.called_at)
         /\ req.refresh_token
              = req.at_call.tokens[req.tenant_id]["refresh_token"]
    /\ (last.op = "get_invoices" /\ last.provider = "ok")
         => /\ last.error = Returned
            /\ last.access_token = last.token_data["access_token"]
            /\ Stored(last.post, last.tenant_id)
            /\ DictDel(last.post.tokens[last.tenant_id], "expires_at")
                 = last.token_data
            /\ DOMAIN _load_tokens(last.post)
                 = DOMAIN _load_tokens(last.pre) \cup {last.tenant_id}
            /\ \A k \in DOMAIN _load_tokens(last.pre) \ {last.tenant_id} :
                 get_token(last.post, k) = get_token(last.pre, k)

\* the second of two refreshes for T that both started from the callback's
\* record has just written, over what the first one wrote
C17_Witness ==
    /\ last.op = "get_invoices"
    /\ last.provider = "ok"
    /\ last.prev.op = "get_invoices"
    /\ last.prev.provider = "ok"
    /\ RecordAtCall["refresh_token"] = CallbackToken
    /\ last.pre.tokens[last.tenant_id]["access_token"] = CallbackToken + 1
    /\ last.post.tokens[last.tenant_id]["access_token"] = CallbackToken + 2
    /\ \E k \in Keys \ {last.tenant_id} : Stored(last.post, k)

\* C18: a successful refresh for an expired T returns the access token of the
\* refresh response, not the stored one, and leaves under T the response
\* alone: its access_token and (rotated) refresh_token, expires_at counted
\* from the instant of the refresh, no field of the old record kept; any
\* refresh for T sends the refresh token stored under T when it is called, so
\* the next one sends the rotated token.
C18_RefreshOverwritesRecord ==
    /\ (last.op = "get_invoices" /\ last.provider = "ok")
         => LET record == last.post.tokens[last.tenant_id]
            IN  /\ last.access_token = last.token_data["access_token"]
                /\ last.access_token # RecordAtCall["access_token"]
                /\ record["access_token"] = last.token_data["access_token"]
                /\ record["refresh_token"] = last.token_data["refresh_token"]
                /\ ExpiresAt(record)
                     = last.saved_at + Lifetime(last.token_data)
                /\ DOMAIN record = DOMAIN last.token_data \cup {"expires_at"}
    /\ \A req \in Suspended("refresh") :
         /\ Stored(req.at_call, req.tenant_id)
         /\ req.refresh_token
              = req.at_call.tokens[req.tenant_id]["refresh_token"]

C18_Witness ==
    /\ last.op = "get_invoices"
    /\ last.provider = "ok"
    /\ \E req \in Suspended("refresh") :
         /\ req.tenant_id = last.tenant_id
         /\ req.called_at > last.saved_at
         /\ req.refresh_token = last.token_data["refresh_token"]
         /\ req.refresh_token # RecordAtCall["refresh_token"]

\* the tenants of a sequence
Range(seq) == {seq[i] : i \in DOMAIN seq}

\* C20: get_organizations on a store with records returns normally whatever
\* refreshes fail; every stored tenant is either skipped (its refresh failed)
\* or gets its API client, a refresh is called at most once per tenant, and
\* the skipped tenants are among those; the keys whose record the call
\* changed are exactly the tenants whose refresh succeeded, so a skipped
\* tenant's record and every fresh tenant's record are left as they were.
C20_RefreshFailureIsolated ==
    /\ (last.op = "get_organizations" /\ ~Falsy(_load_tokens(last.at_call)))
         => /\ last.error = Returned
            /\ \A k \in DOMAIN _load_tokens(last.at_call) :
                 (k \in last.skipped) # (\E u \in last.used : u[1] = k)
            /\ \A i, j \in DOMAIN last.refreshed :
                 last.refreshed[i] = last.refreshed[j] => i = j
            /\ last.skipped \subseteq Range(last.refreshed)
            /\ last.wrote = Range(last.refreshed) \ last.skipped
    /\ \A req \in Suspended("orgs_refresh") :
         req.wrote = Range(req.refreshed) \ req.skipped

C20_Witness ==
    /\ last.op = "get_organizations"
    /\ last.error = Returned
    /\ last.skipped # {}
    /\ \E u \in last.used : u[1] \in Range(last.refreshed)
    /\ \E u \in last.used : u[1] \notin Range(last.refreshed)
    /\ last.wrote # {}
    /\ \A k \in last.skipped :
         get_token(last.post, k) = get_token(last.at_call, k)

====
